---------------------------- MODULE Spec2Model ----------------------------
(***************************************************************************)
(* Model of nani/manager.py: FieldTranslator, TranslationMixin (the        *)
(* translation-aware queryset) and TranslationManager.                     *)
(*                                                                         *)
(* Python objects live in heaps (sequences indexed by object identity):    *)
(* querysets, translators (FieldTranslator instances) and qobjects (Q      *)
(* objects, which _recurse_q rewrites in place).  The two tables are       *)
(* shared_rows and trans_rows.  `last` records the outcome of the last     *)
(* call: what it was given, what it raised, what it returned and what it   *)
(* handed to the underlying QuerySet / Manager.                            *)
(***************************************************************************)
EXTENDS Integers, Sequences, FiniteSets, TLC

VARIABLES schema, ambient, querysets, translators, qobjects,
          qoriginal, qpasses, shared_rows, trans_rows, last

vars == <<schema, ambient, querysets, translators, qobjects,
          qoriginal, qpasses, shared_rows, trans_rows, last>>

\* ------------------------------------------------------------------ bounds
MaxQuerySets == 2
MaxQObjects == 1
MaxNest == 1
MaxPasses == 2
MaxRows == 1

\* ------------------------------------------------------------- the schema
\* A schema is the pair of answers of _meta.get_all_field_names(): one for
\* the shared model, one for the translations model.  The translations
\* model always has id, master and language_code; neither of the last two
\* is ever a shared field name.
Schemas ==
  { [shared |-> {"id", "name"},
     translated |-> {"id", "master", "language_code", "title"}],
    [shared |-> {"id", "m"},
     translated |-> {"id", "master", "language_code", "m_local"}],
    [shared |-> {"id", "language"},
     translated |-> {"id", "master", "language_code", "title"}] }

Languages == {"en", "de"}

None == "None"

\* str.startswith(prefix)
StartsWith(s, p) == Len(p) <= Len(s) /\ SubSeq(s, 1, Len(p)) = p

\* 'master__%s' % key
Qualify(key) == "master__" \o key

\* ---------------------------------------------------------- FieldTranslator
\* FieldTranslator.__init__: the two tuples of names and an empty dict.
FieldTranslator(sch) ==
  [shared_fields |-> sch.shared \cup {"pk"},
   translated_fields |-> sch.translated,
   cache |-> [k \in {} |-> ""]]

\* FieldTranslator.build: key.startswith(tuple) is true when key starts with
\* any member of the tuple.
build(ft, key) ==
  IF \E s \in ft.shared_fields : StartsWith(key, s) THEN Qualify(key) ELSE key

\* FieldTranslator.get: the translated name and the translator afterwards.
FTget(ft, key) ==
  IF key \in DOMAIN ft.cache
    THEN [ft |-> ft, value |-> ft.cache[key]]
    ELSE LET v == build(ft, key)
         IN  [ft |-> [ft EXCEPT !.cache = (key :> v) @@ ft.cache], value |-> v]

\* ------------------------------------------------------------- Q objects
\* A child of a Q object is a (key, value) pair, an R marker or a Q object.
Leaf(k, v) == [type |-> "leaf", key |-> k, value |-> v, children |-> << >>]
RMark(k, v) == [type |-> "R", key |-> k, value |-> v, children |-> << >>]
QObj(ch) == [type |-> "Q", key |-> "", value |-> "", children |-> ch]

RECURSIVE HasLeaf(_)
HasLeaf(q) ==
  \E i \in 1..Len(q.children) :
     \/ q.children[i].type = "leaf"
     \/ q.children[i].type = "Q" /\ HasLeaf(q.children[i])

\* TranslationMixin._recurse_q, one operator per step of its loop, the
\* translator threaded through.  children are the children still to visit,
\* acc is newchildren.
RECURSIVE recurse_children(_, _, _), recurse_child(_, _, _, _)

\* the else branch: (self.field_translator.get(key), value)
recurse_leaf(c, rest, acc, g) ==
  recurse_children(rest, g.ft, Append(acc, [c EXCEPT !.key = g.value]))

\* newchildren.append(self._recurse_q(newq)): r2 is the second recursion,
\* on the Q object the first one rewrote.
recurse_appended(c, rest, acc, r2) ==
  recurse_children(rest, r2.ft, Append(acc, [c EXCEPT !.children = r2.children]))

\* newq = self._recurse_q(child): r1 is the first recursion.
recurse_again(c, rest, acc, r1) ==
  recurse_appended(c, rest, acc, recurse_children(r1.children, r1.ft, << >>))

recurse_child(c, rest, ft, acc) ==
  IF c.type = "R" THEN recurse_children(rest, ft, Append(acc, c))
  ELSE IF c.type = "Q"
    THEN recurse_again(c, rest, acc, recurse_children(c.children, ft, << >>))
  ELSE recurse_leaf(c, rest, acc, FTget(ft, c.key))

recurse_children(children, ft, acc) ==
  IF children = << >> THEN [children |-> acc, ft |-> ft]
  ELSE recurse_child(Head(children), Tail(children), ft, acc)

\* q.children = newchildren; return q
recurse_assign(q, r) == [q |-> [q EXCEPT !.children = r.children], ft |-> r.ft]

_recurse_q(q, ft) == recurse_assign(q, recurse_children(q.children, ft, << >>))

\* ------------------------------------------------------------- the heaps
\* TranslationManager.get_query_set / TranslationMixin.__init__: a fresh
\* queryset on the translations model.  where, order_by and select_related
\* are the state of the underlying QuerySet's query.  An empty
\* _local_field_names stands for None, 0 for no translator.
TranslationMixin(real) ==
  [_local_field_names |-> {},
   _field_translator |-> 0,
   _real_manager |-> real,
   _language_code |-> None,
   where |-> << >>,
   order_by |-> << >>,
   select_related |-> FALSE]

\* TranslationManager.contribute_to_class: the parallel shared-only manager.
RealManager == "_objects"

\* The objects a call works on: the queryset, translator and Q heaps.
Heap == [qs |-> querysets, fts |-> translators, qobjs |-> qobjects]

\* TranslationMixin.field_translator: built on first use.
field_translator(h, self) ==
  IF h.qs[self]._field_translator = 0
    THEN [h EXCEPT !.fts = Append(@, FieldTranslator(schema)),
                   !.qs[self]._field_translator = Len(h.fts) + 1]
    ELSE h

\* TranslationMixin.shared_local_field_names: cached on first use.
shared_local_field_names(h, self) ==
  IF h.qs[self]._local_field_names = {}
    THEN [h EXCEPT !.qs[self]._local_field_names = schema.shared]
    ELSE h

\* self.field_translator.get(key) for every key of keys.
RECURSIVE translate_keys(_, _)
translate_keys(ft, keys) ==
  IF keys = {} THEN ft
  ELSE translate_keys(FTget(ft, CHOOSE x \in keys : TRUE).ft,
                      keys \ {CHOOSE x \in keys : TRUE})

with_keys(h, self, keys) ==
  [h EXCEPT !.fts[h.qs[self]._field_translator] = translate_keys(@, keys)]

\* The args loop of _translate: each Q object is rewritten in place.
RECURSIVE translate_args(_, _, _)
translate_stored(h, self, i, r, rest) ==
  translate_args([h EXCEPT !.qobjs[i] = r.q,
                           !.fts[h.qs[self]._field_translator] = r.ft],
                 self, rest)

translate_arg(h, self, i, rest) ==
  IF h.qs[self]._field_translator = 0 THEN translate_args(h, self, rest)
  ELSE translate_stored(h, self, i,
          _recurse_q(h.qobjs[i], h.fts[h.qs[self]._field_translator]), rest)

translate_args(h, self, args) ==
  IF args = << >> THEN h
  ELSE translate_arg(IF HasLeaf(h.qobjs[Head(args)]) THEN field_translator(h, self)
                     ELSE h,
                     self, Head(args), Tail(args))

\* The kwargs loop of _translate, then its args loop: the heap afterwards
\* and the new kwargs; the new args are the same Q objects.
translate_kwargs(h, self, args, kwargs) ==
  LET name(k) == h.fts[h.qs[self]._field_translator].cache[k]
  IN  [h |-> translate_args(h, self, args),
       newkwargs |-> [n \in {name(k) : k \in DOMAIN kwargs} |->
                        kwargs[CHOOSE k \in DOMAIN kwargs : name(k) = n]]]

\* TranslationMixin._translate
_translate(h, self, args, kwargs) ==
  translate_kwargs(IF DOMAIN kwargs = {} THEN h
                   ELSE with_keys(field_translator(h, self), self, DOMAIN kwargs),
                   self, args, kwargs)

translate_names(h, self, fieldnames) ==
  [h |-> h,
   newnames |-> [i \in 1..Len(fieldnames) |->
                   h.fts[h.qs[self]._field_translator].cache[fieldnames[i]]]]

\* TranslationMixin._translate_fieldnames
_translate_fieldnames(h, self, fieldnames) ==
  translate_names(IF fieldnames = << >> THEN h
                  ELSE with_keys(field_translator(h, self), self,
                                 {fieldnames[i] : i \in 1..Len(fieldnames)}),
                  self, fieldnames)

\* _clone without the copy of the translator.
_clone_no_translator(q) ==
  [TranslationMixin("None") EXCEPT
      !.where = q.where, !.order_by = q.order_by,
      !.select_related = q.select_related,
      !._local_field_names = q._local_field_names,
      !._language_code = q._language_code,
      !._real_manager = q._real_manager]

\* TranslationMixin._clone: the base clone copies the query; the four
\* attributes are copied by reference.
_clone(q) ==
  [TranslationMixin("None") EXCEPT
      !.where = q.where, !.order_by = q.order_by,
      !.select_related = q.select_related,
      !._local_field_names = q._local_field_names,
      !._field_translator = q._field_translator,
      !._language_code = q._language_code,
      !._real_manager = q._real_manager]

\* ------------------------------------------- the underlying QuerySet
EmptyDict == [k \in {} |-> ""]

\* The names the underlying query can resolve on the translations model:
\* its own fields, pk, and one hop through master to a shared field.
Resolvable(key) ==
  \/ key \in schema.translated \cup {"pk"}
  \/ \E f \in schema.shared \cup {"pk"} : key = Qualify(f)

\* The name of the model field a resolvable key ends at.
FieldName(key) ==
  LET f == IF StartsWith(key, "master__") THEN SubSeq(key, 9, Len(key)) ELSE key
  IN  IF f = "pk" THEN "id" ELSE f

RECURSIVE AllResolvable(_)
AllResolvable(children) ==
  \A i \in 1..Len(children) :
     LET c == children[i]
     IN  CASE c.type = "leaf" -> Resolvable(c.key)
           [] c.type = "Q" -> AllResolvable(c.children)
           [] OTHER -> TRUE

RECURSIVE DictItems(_)
DictItems(d) ==
  IF DOMAIN d = {} THEN << >>
  ELSE LET k == CHOOSE x \in DOMAIN d : TRUE
       IN  <<Leaf(k, d[k])>> \o DictItems([x \in DOMAIN d \ {k} |-> d[x]])

\* QuerySet.filter: clone, then add Q(*args, **kwargs) to the clone's where
\* tree, one subtree per child.  A name the query cannot resolve raises
\* FieldError and the clone is lost.
QuerySet_filter(h, self, args, kwargs) ==
  LET nodes == [i \in 1..Len(args) |-> h.qobjs[args[i]]] \o DictItems(kwargs)
      cloned == [_clone(h.qs[self]) EXCEPT !.where = @ \o nodes]
  IN  IF AllResolvable(nodes)
        THEN [h |-> [h EXCEPT !.qs = Append(@, cloned)], error |-> "",
              new |-> Len(h.qs) + 1, passed |-> kwargs]
        ELSE [h |-> h, error |-> "FieldError", new |-> 0, passed |-> kwargs]

\* Attribute f of a row, None when the row was created without it.
Attr(row, f) == IF f \in DOMAIN row THEN row[f] ELSE None

RECURSIVE NodeMatches(_, _)
NodeMatches(t, c) ==
  CASE c.type = "leaf" ->
         IF StartsWith(c.key, "master__")
           THEN Attr(shared_rows[t["master"]], FieldName(c.key)) = c.value
           ELSE Attr(t, FieldName(c.key)) = c.value
    [] c.type = "Q" -> \A i \in 1..Len(c.children) : NodeMatches(t, c.children[i])
    [] OTHER -> TRUE

\* The translation rows a where tree selects.
Matching(where) ==
  {r \in 1..Len(trans_rows) :
     \A i \in 1..Len(where) : NodeMatches(trans_rows[r], where[i])}

\* ------------------------------------------------- the queryset's methods
filter_translated(t, self, args) == QuerySet_filter(t.h, self, args, t.newkwargs)

\* TranslationMixin.filter
filter(h, self, args, kwargs) ==
  filter_translated(_translate(h, self, args, kwargs), self, args)

\* TranslationMixin.language: sets the attribute on self, then filters.
language(h, self, language_code) ==
  LET lc == IF language_code = None THEN ambient ELSE language_code
  IN  filter([h EXCEPT !.qs[self]._language_code = lc], self, << >>,
             ("language_code" :> lc))

\* The loop of get over qs.query.where.children: a subtree made from a
\* keyword holds one (constraint, ...) tuple; a subtree made from a Q
\* argument holds subtrees, and indexing one with [0] raises TypeError.
ScanRaises(where) ==
  \E i \in 1..Len(where) : where[i].type = "Q" /\ where[i].children # << >>

ScanFound(where) ==
  \E i \in 1..Len(where) :
     where[i].type = "leaf" /\ FieldName(where[i].key) = "language_code"

get_looked(looked, newkwargs) ==
  [h |-> looked.h, error |-> looked.error, new |-> looked.new,
   passed |-> newkwargs]

\* trans = QuerySet.get(qs, *newargs, **newkwargs), which starts with
\* qs.filter(*newargs, **newkwargs): TranslationMixin.filter again.
get_lookup(scoped, args, newkwargs) ==
  get_looked(IF scoped.error = "" THEN filter(scoped.h, scoped.new, args, newkwargs)
             ELSE scoped,
             newkwargs)

\* qs = self.select_related('master') and the language scoping of qs.
get_scope(h, qs, args, newkwargs) ==
  get_lookup(
    IF "language_code" \in DOMAIN newkwargs
      THEN language(h, qs, newkwargs["language_code"])
    ELSE IF ScanRaises(h.qs[qs].where)
      THEN [h |-> h, error |-> "TypeError", new |-> 0, passed |-> EmptyDict]
    ELSE IF ScanFound(h.qs[qs].where)
      THEN [h |-> h, error |-> "", new |-> qs, passed |-> EmptyDict]
    ELSE language(h, qs, None),
    args,
    [k \in DOMAIN newkwargs \ {"language_code"} |-> newkwargs[k]])

get_translated(t, self, args) ==
  get_scope([t.h EXCEPT !.qs = Append(@, [_clone(t.h.qs[self]) EXCEPT
                                            !.select_related = TRUE])],
            Len(t.h.qs) + 1, args, t.newkwargs)

\* TranslationMixin.get up to the lookup: the heap afterwards, the error
\* raised if any, the queryset the lookup runs on and the kwargs it is given.
get(h, self, args, kwargs) ==
  get_translated(_translate(h, self, args, kwargs), self, args)

\* The keys create takes for shared field names when it tests them the way
\* FieldTranslator.build does.
translated_keys_startswith(names, kwargs) ==
  {k \in DOMAIN kwargs : ~ \E s \in names : StartsWith(k, s)}

\* The first loop of create: the keys that are not shared field names.
translated_keys(names, kwargs) == {k \in DOMAIN kwargs : k \notin names}

\* The language_code default without the queryset's own scope.
enforce_language_ambient(q, tkwargs) ==
  IF "language_code" \in DOMAIN tkwargs THEN tkwargs
  ELSE ("language_code" :> ambient) @@ tkwargs

\* "enforce a language_code"
enforce_language(q, tkwargs) ==
  IF "language_code" \in DOMAIN tkwargs THEN tkwargs
  ELSE IF q._language_code # None
    THEN ("language_code" :> q._language_code) @@ tkwargs
  ELSE ("language_code" :> ambient) @@ tkwargs

\* A given master used whatever else is given.
use_master_unchecked(h, skwargs, tkwargs) ==
  IF "master" \in DOMAIN tkwargs
    THEN [h |-> h, error |-> "", make_shared |-> FALSE,
          skwargs |-> skwargs, tkwargs |-> tkwargs]
    ELSE [h |-> h, error |-> "", make_shared |-> TRUE,
          skwargs |-> skwargs,
          tkwargs |-> ("master" :> Len(shared_rows) + 1) @@ tkwargs]

\* "Allow a pre-existing master to be passed, but only if no shared fields
\* are given": otherwise the shared instance is to be created and becomes
\* the master.
use_master(h, skwargs, tkwargs) ==
  IF "master" \in DOMAIN tkwargs
    THEN IF DOMAIN skwargs # {}
           THEN [h |-> h, error |-> "RuntimeError", make_shared |-> FALSE,
                 skwargs |-> skwargs, tkwargs |-> tkwargs]
           ELSE [h |-> h, error |-> "", make_shared |-> FALSE,
                 skwargs |-> skwargs, tkwargs |-> tkwargs]
    ELSE [h |-> h, error |-> "", make_shared |-> TRUE,
          skwargs |-> skwargs,
          tkwargs |-> ("master" :> Len(shared_rows) + 1) @@ tkwargs]

create_split(h, self, kwargs, tkeys) ==
  use_master(h, [k \in DOMAIN kwargs \ tkeys |-> kwargs[k]],
             enforce_language(h.qs[self], [k \in tkeys |-> kwargs[k]]))

create_named(h, self, kwargs) ==
  create_split(h, self, kwargs,
               translated_keys(h.qs[self]._local_field_names, kwargs))

\* TranslationMixin.create up to its result: the kwargs for the shared
\* manager and for the translations manager, and the error raised if any.
create(h, self, kwargs) ==
  create_named(IF DOMAIN kwargs = {} THEN h ELSE shared_local_field_names(h, self),
               self, kwargs)

\* ------------------------------------------------------------ the inputs
\* The shared model's own field and the translations model's own field.
SharedField == CHOOSE f \in schema.shared : f # "id"
TranslatedField ==
  CHOOSE f \in schema.translated : f \notin {"id", "master", "language_code"}

KeyValues(k) ==
  IF k = "language_code" THEN Languages
  ELSE IF k \in {"pk", "id"} THEN {1}
  ELSE IF k = "master" THEN 1..Len(shared_rows)
  ELSE IF k = TranslatedField THEN {"Y"}
  ELSE {"X"}

FilterKeys == {SharedField, Qualify(SharedField), TranslatedField, "language_code"}

GetKeys == {SharedField}

OrderKeys == {"pk"}

\* No keyword or one keyword out of keys.
OneKwarg(keys) ==
  {EmptyDict} \cup UNION {{k :> v : v \in KeyValues(k)} : k \in keys}

\* Every dict over a subset of keys.
RECURSIVE AllKwargs(_)
AllKwargs(keys) ==
  IF keys = {} THEN {EmptyDict}
  ELSE LET k == CHOOSE x \in keys : TRUE
           rest == AllKwargs(keys \ {k})
       IN  rest \cup {(k :> v) @@ d : v \in KeyValues(k), d \in rest}

CreateKeys == {SharedField, TranslatedField, "language_code", "master"}

RECURSIVE Nest(_, _)
Nest(n, children) ==
  IF n = 0 THEN QObj(children) ELSE QObj(<<Nest(n - 1, children)>>)

\* Q(k=v, R(...)) wrapped in up to MaxNest further Q objects.
QShapes ==
  {Nest(n, <<Leaf(k, CHOOSE v \in KeyValues(k) : TRUE), RMark(SharedField, "X")>>) :
     n \in 0..MaxNest, k \in {SharedField}}

UnsupportedOps ==
  {"aggregate", "latest", "in_bulk", "delete", "update", "values",
   "values_list", "dates", "exclude", "complex_filter", "annotate",
   "reverse", "defer", "only"}

\* ------------------------------------------------------- the state machine
NoCall ==
  [op |-> "", self |-> 0, args |-> << >>, kwargs |-> EmptyDict,
   error |-> "", new |-> 0, result |-> 0, passed |-> EmptyDict,
   lookup |-> << >>, calls |-> << >>]

Init ==
  /\ schema \in Schemas
  /\ ambient \in Languages
  /\ querysets = << >>
  /\ translators = << >>
  /\ qobjects = << >>
  /\ qoriginal = << >>
  /\ qpasses = << >>
  /\ shared_rows \in {<< >>, <<("id" :> 1)>>}
  /\ trans_rows = << >>
  /\ last = NoCall

\* No call is in progress: the caller has taken the last call's outcome.
Idle == last = NoCall

\* The caller takes the outcome of the call.
Return ==
  /\ ~Idle
  /\ last' = NoCall
  /\ UNCHANGED <<schema, ambient, querysets, translators, qobjects, qoriginal,
                 qpasses, shared_rows, trans_rows>>

\* django.utils.translation.activate: the ambient language changes.
Activate(l) ==
  /\ Idle
  /\ l # ambient
  /\ ambient' = l
  /\ UNCHANGED <<schema, querysets, translators, qobjects, qoriginal, qpasses,
                 shared_rows, trans_rows, last>>

\* The caller builds a Q object.
NewQ(q) ==
  /\ Idle
  /\ Len(qobjects) < MaxQObjects
  /\ qobjects' = Append(qobjects, q)
  /\ qoriginal' = Append(qoriginal, q)
  /\ qpasses' = Append(qpasses, 0)
  /\ UNCHANGED <<schema, ambient, querysets, translators, shared_rows,
                 trans_rows, last>>

\* The Q objects of args have been through _translate once more.
Passed(args) ==
  [i \in 1..Len(qpasses) |->
     IF \E j \in 1..Len(args) : args[j] = i THEN qpasses[i] + 1 ELSE qpasses[i]]

\* TranslationManager.get_query_set
get_query_set ==
  /\ Idle
  /\ Len(querysets) < MaxQuerySets
  /\ querysets' = Append(querysets, TranslationMixin(RealManager))
  /\ last' = [NoCall EXCEPT !.op = "get_query_set", !.new = Len(querysets) + 1]
  /\ UNCHANGED <<schema, ambient, translators, qobjects, qoriginal, qpasses,
                 shared_rows, trans_rows>>

\* TranslationManager.language: a fresh queryset, scoped at once; the fresh
\* queryset itself is not kept.
Manager_language_returns(language_code, n, r) ==
      /\ querysets' = IF r.error = "" THEN Append(querysets, r.h.qs[r.new])
                      ELSE querysets
      /\ translators' = IF r.error = "" THEN r.h.fts ELSE translators
      /\ last' = [NoCall EXCEPT !.op = "Manager.language",
                                !.kwargs = ("language_code" :> language_code),
                                !.error = r.error,
                                !.new = IF r.error = "" THEN n + 1 ELSE 0,
                                !.passed = r.passed]
      /\ UNCHANGED <<schema, ambient, qobjects, qoriginal, qpasses,
                     shared_rows, trans_rows>>

Manager_language(language_code) ==
  /\ Idle
  /\ Len(querysets) < MaxQuerySets
  /\ Manager_language_returns(language_code, Len(querysets),
        language([Heap EXCEPT !.qs = Append(@, TranslationMixin(RealManager))],
                 Len(querysets) + 1, language_code))

\* A call on a queryset that returns a new queryset or raises.
Derive(op, self, args, kwargs, r) ==
  /\ querysets' = r.h.qs
  /\ translators' = r.h.fts
  /\ qobjects' = r.h.qobjs
  /\ qpasses' = Passed(args)
  /\ last' = [NoCall EXCEPT !.op = op, !.self = self, !.args = args,
                            !.kwargs = kwargs, !.error = r.error,
                            !.new = r.new, !.passed = r.passed]
  /\ UNCHANGED <<schema, ambient, qoriginal, shared_rows, trans_rows>>

\* TranslationMixin.language called on a queryset.
Language(self, language_code) ==
  /\ Idle
  /\ Len(querysets) < MaxQuerySets
  /\ Derive("language", self, << >>, ("language_code" :> language_code),
            language(Heap, self, language_code))

\* TranslationMixin.filter called on a queryset.
Filter(self, args, kwargs) ==
  /\ Idle
  /\ Len(querysets) < MaxQuerySets
  /\ Derive("filter", self, args, kwargs, filter(Heap, self, args, kwargs))

\* TranslationMixin.order_by: the names are translated, then the underlying
\* order_by replaces the ordering of a clone.
order_by(self, field_names, t) ==
      /\ querysets' = Append(t.h.qs, [_clone(t.h.qs[self]) EXCEPT
                                        !.order_by = t.newnames])
      /\ translators' = t.h.fts
      /\ last' = [NoCall EXCEPT !.op = "order_by", !.self = self,
                                !.args = field_names,
                                !.new = Len(querysets) + 1]
      /\ UNCHANGED <<schema, ambient, qobjects, qoriginal, qpasses,
                     shared_rows, trans_rows>>

OrderBy(self, field_names) ==
  /\ Idle
  /\ Len(querysets) < MaxQuerySets
  /\ order_by(self, field_names, _translate_fieldnames(Heap, self, field_names))

\* QuerySet.select_related (as QuerySet.all) returns self._clone().
SelectRelated(self) ==
  /\ Idle
  /\ Len(querysets) < MaxQuerySets
  /\ querysets' = Append(querysets, [_clone(querysets[self]) EXCEPT
                                       !.select_related = TRUE])
  /\ last' = [NoCall EXCEPT !.op = "select_related", !.self = self,
                            !.new = Len(querysets) + 1]
  /\ UNCHANGED <<schema, ambient, translators, qobjects, qoriginal, qpasses,
                 shared_rows, trans_rows>>

\* TranslationMixin.get: the querysets it clones along the way are dropped
\* when it returns, with a translator only they held.
get_returns(self, args, kwargs, r) ==
  LET n == Len(querysets)
      where == IF r.error = "" THEN r.h.qs[r.new].where ELSE << >>
      rows == IF r.error = "" THEN Matching(where) ELSE {}
      error == IF r.error # "" THEN r.error
               ELSE IF rows = {} THEN "DoesNotExist"
               ELSE IF Cardinality(rows) > 1 THEN "MultipleObjectsReturned"
               ELSE ""
  IN  /\ querysets' = SubSeq(r.h.qs, 1, n)
      /\ translators' = IF r.h.qs[self]._field_translator = 0 THEN translators
                        ELSE r.h.fts
      /\ qobjects' = r.h.qobjs
      /\ qpasses' = Passed(args)
      /\ last' = [NoCall EXCEPT !.op = "get", !.self = self, !.args = args,
                                !.kwargs = kwargs, !.error = error,
                                !.result = IF error = "" THEN CHOOSE x \in rows : TRUE
                                           ELSE 0,
                                !.passed = r.passed, !.lookup = where]
      /\ UNCHANGED <<schema, ambient, qoriginal, shared_rows, trans_rows>>

Get(self, args, kwargs) ==
  /\ Idle
  /\ get_returns(self, args, kwargs, get(Heap, self, args, kwargs))

\* TranslationMixin.create: the shared row, then the translation row; the
\* result is combine() of the new translation row.
create_returns(self, kwargs, r) ==
  LET shared == ("id" :> Len(shared_rows) + 1) @@ r.skwargs
      trans == ("id" :> Len(trans_rows) + 1) @@ r.tkwargs
  IN  /\ querysets' = r.h.qs
      /\ shared_rows' = IF r.error = "" /\ r.make_shared
                          THEN Append(shared_rows, shared) ELSE shared_rows
      /\ trans_rows' = IF r.error = "" THEN Append(trans_rows, trans) ELSE trans_rows
      /\ last' = [NoCall EXCEPT
                    !.op = "create", !.self = self, !.kwargs = kwargs,
                    !.error = r.error,
                    !.result = IF r.error = "" THEN Len(trans_rows) + 1 ELSE 0,
                    !.calls = IF r.error # "" THEN << >>
                              ELSE (IF r.make_shared
                                      THEN <<[manager |-> RealManager,
                                              kwargs |-> r.skwargs]>>
                                      ELSE << >>)
                                   \o <<[manager |-> "objects",
                                         kwargs |-> r.tkwargs]>>]
      /\ UNCHANGED <<schema, ambient, translators, qobjects, qoriginal, qpasses>>

Create(self, kwargs) ==
  /\ Idle
  /\ Len(trans_rows) < MaxRows
  /\ create_returns(self, kwargs, create(Heap, self, kwargs))

\* The unsupported methods with exclude handed on to the underlying
\* QuerySet, which clones.
Unsupported_delegates(self, op) ==
  /\ Idle
  /\ IF op = "exclude" /\ Len(querysets) < MaxQuerySets
       THEN /\ querysets' = Append(querysets, _clone(querysets[self]))
            /\ last' = [NoCall EXCEPT !.op = op, !.self = self,
                                      !.new = Len(querysets) + 1]
       ELSE /\ querysets' = querysets
            /\ last' = [NoCall EXCEPT !.op = op, !.self = self,
                                      !.error = "NotImplementedError"]
  /\ UNCHANGED <<schema, ambient, translators, qobjects, qoriginal,
                 qpasses, shared_rows, trans_rows>>

\* aggregate, latest, in_bulk, delete, update, values, values_list, dates,
\* exclude, complex_filter, annotate, reverse, defer, only: raise at once.
Unsupported(self, op) ==
  /\ Idle
  /\ last' = [NoCall EXCEPT !.op = op, !.self = self,
                            !.error = "NotImplementedError"]
  /\ UNCHANGED <<schema, ambient, querysets, translators, qobjects, qoriginal,
                 qpasses, shared_rows, trans_rows>>

\* The calls both specifications share.
Building ==
  \/ Return
  \/ \E l \in Languages : Activate(l)
  \/ get_query_set
  \/ \E lc \in Languages \cup {None} : Manager_language(lc)
  \/ \E self \in 1..Len(querysets) :
       \/ \E lc \in Languages \cup {None} : Language(self, lc)
       \/ \E names \in {<< >>} \cup {<<k>> : k \in OrderKeys} : OrderBy(self, names)
       \/ SelectRelated(self)

\* The calls with keyword arguments only.
Next ==
  \/ Building
  \/ \E self \in 1..Len(querysets) :
       \/ \E kwargs \in OneKwarg(FilterKeys) : Filter(self, << >>, kwargs)
       \/ \E kwargs \in OneKwarg(GetKeys), lc \in OneKwarg({"language_code"}) :
            Get(self, << >>, lc @@ kwargs)

Spec == Init /\ [][Next]_vars

\* The calls with a Q object, on fresh querysets and their clones, over
\* the rows create has made.
NextQ ==
  \/ Return
  \/ get_query_set
  \/ \E q \in QShapes : NewQ(q)
  \/ \E self \in 1..Len(querysets) :
       Create(self, (SharedField :> "X") @@ (TranslatedField :> "Y"))
  \/ \E self \in 1..Len(querysets), i \in 1..Len(qobjects) :
       /\ qpasses[i] < MaxPasses
       /\ \/ \E kwargs \in OneKwarg(GetKeys) : Filter(self, <<i>>, kwargs)
          \/ \E lc \in OneKwarg({"language_code"}) : Get(self, <<i>>, lc)

SpecQ == Init /\ [][NextQ]_vars

\* Creating rows through the querysets that can be built.
NextCreate ==
  \/ Building
  \/ \E self \in 1..Len(querysets) :
       \/ Filter(self, << >>, TranslatedField :> "Y")
       \/ \E kwargs \in AllKwargs(CreateKeys) : Create(self, kwargs)

SpecCreate == Init /\ [][NextCreate]_vars

\* Building querysets and calling the unsupported methods on them.
NextBuilder ==
  \/ Building
  \/ \E self \in 1..Len(querysets) :
       \/ Filter(self, << >>, SharedField :> "X")
       \/ \E op \in UnsupportedOps : Unsupported(self, op)

SpecBuilder == Init /\ [][NextBuilder]_vars

\* ------------------------------------------------------------ properties
\* The language codes a where tree restricts language_code to.
Restrictions(where) ==
  {where[i].value : i \in {j \in 1..Len(where) :
      where[j].type = "leaf" /\ FieldName(where[j].key) = "language_code"}}

\* The lookup of the last get ran: it raised nothing before the rows were
\* fetched.
Executed == last.error \in {"", "DoesNotExist", "MultipleObjectsReturned"}

\* C1: every cached resolution of a shared field name f (pk included) is
\* master__f, and every cached resolution of a translation-only field name g
\* is g itself.
C1_ResolverContract ==
  \A t \in 1..Len(translators) :
    \A k \in DOMAIN translators[t].cache :
      /\ k \in schema.shared \cup {"pk"} => translators[t].cache[k] = Qualify(k)
      /\ k \in schema.translated \ schema.shared => translators[t].cache[k] = k

\* C4: a get without a language_code keyword on a queryset with no
\* language_code predicate runs its lookup restricted to the ambient
\* language; a get with language_code=c runs its lookup restricted to c and
\* passes no language_code on; a get without the keyword on a queryset that
\* has a language_code predicate adds no restriction.
C4_GetLanguageScoping ==
  last.op = "get" =>
    LET own == Restrictions(querysets[last.self].where)
    IN  IF "language_code" \in DOMAIN last.kwargs
          THEN /\ Executed
               /\ Restrictions(last.lookup) = own \cup {last.kwargs["language_code"]}
               /\ "language_code" \notin DOMAIN last.passed
        ELSE IF own = {}
          THEN Executed /\ Restrictions(last.lookup) = {ambient}
        ELSE Executed => Restrictions(last.lookup) = own

\* C6: filter(name=value) and filter(master__name=value), name a shared
\* field, both hand the keyword master__name to the underlying filter.
C6_FilterEquivalence ==
  ( /\ last.op = "filter"
    /\ DOMAIN last.kwargs # {}
    /\ DOMAIN last.kwargs \subseteq {SharedField, Qualify(SharedField)} )
  => DOMAIN last.passed = {Qualify(SharedField)}

\* The tree q with the resolver applied once to the name of every leaf.
RECURSIVE ResolvedOnce(_)
ResolvedOnce(q) ==
  [q EXCEPT !.children =
     [i \in 1..Len(q.children) |->
        IF q.children[i].type = "leaf"
          THEN [q.children[i] EXCEPT !.key = build(FieldTranslator(schema), @)]
        ELSE IF q.children[i].type = "Q" THEN ResolvedOnce(q.children[i])
        ELSE q.children[i]]]

\* C9: a Q object that has been passed to filter or get, once or more, is
\* the Q object the caller built with the same structure, the R markers
\* untouched and the resolver applied once to each leaf's name.
C9_RewrittenOnce ==
  \A i \in 1..Len(qobjects) :
    qobjects[i] = IF qpasses[i] = 0 THEN qoriginal[i] ELSE ResolvedOnce(qoriginal[i])

\* C10: a queryset whose language scope is c has a language_code = c
\* predicate in its own where tree.
C10_ScopeAgreesWithFilter ==
  \A b \in 1..Len(querysets) :
    querysets[b]._language_code # None
      => querysets[b]._language_code \in Restrictions(querysets[b].where)

\* C7: when filter, order_by, language or select_related clones a
\* language-scoped queryset, the clone has the original's language scope,
\* translator (one exists), cached field-name list and shared manager; no
\* queryset's translator is ever replaced and no cached resolution is ever
\* dropped or changed, so both see the same resolutions from then on.
C7_ClonePreserves ==
  [][ /\ ( /\ last'.op \in {"filter", "order_by", "language", "select_related"}
           /\ last'.new # 0
           /\ querysets'[last'.self]._language_code # None )
         => /\ querysets'[last'.new]._language_code
                 = querysets'[last'.self]._language_code
            /\ querysets'[last'.new]._field_translator
                 = querysets'[last'.self]._field_translator
            /\ querysets'[last'.new]._field_translator # 0
            /\ querysets'[last'.new]._local_field_names
                 = querysets'[last'.self]._local_field_names
            /\ querysets'[last'.new]._real_manager
                 = querysets'[last'.self]._real_manager
      /\ \A b \in 1..Len(querysets) :
            querysets[b]._field_translator # 0
              => querysets'[b]._field_translator = querysets[b]._field_translator
      /\ \A t \in 1..Len(translators) :
            \A k \in DOMAIN translators[t].cache :
               /\ k \in DOMAIN translators'[t].cache
               /\ translators'[t].cache[k] = translators[t].cache[k]
    ]_vars

\* A language-scoped queryset was filtered on a field, and the clone holds
\* the translator with both resolutions.
C7_Witness ==
  /\ last.op = "filter"
  /\ last.new # 0
  /\ querysets[last.self]._language_code # None
  /\ querysets[last.new]._field_translator = querysets[last.self]._field_translator
  /\ Cardinality(DOMAIN translators[querysets[last.new]._field_translator].cache) >= 2

\* C8: a call of an unsupported method raises NotImplementedError, returns
\* nothing, runs no query and leaves every queryset, translator, Q object
\* and row as it was.
C8_UnsupportedRaises ==
  [][ last'.op \in UnsupportedOps
        => /\ last'.error = "NotImplementedError"
           /\ last'.new = 0 /\ last'.result = 0
           /\ last'.lookup = << >> /\ last'.calls = << >>
           /\ UNCHANGED <<querysets, translators, qobjects, shared_rows, trans_rows>>
    ]_vars

\* exclude was called on a language-scoped, filtered queryset and raised.
C8_Witness ==
  /\ last.op = "exclude"
  /\ last.error = "NotImplementedError"
  /\ querysets[last.self]._language_code # None
  /\ Len(querysets[last.self].where) >= 2

\* C2: create with master: with a shared-owned field it raises RuntimeError
\* and both tables stay as they were; with none it adds no shared row and
\* one translation row whose master is the given record.
C2_CreateWithMaster ==
  [][ (last'.op = "create" /\ "master" \in DOMAIN last'.kwargs)
        => IF DOMAIN last'.kwargs \cap schema.shared # {}
             THEN /\ last'.error = "RuntimeError"
                  /\ UNCHANGED <<shared_rows, trans_rows>>
             ELSE /\ last'.error = ""
                  /\ shared_rows' = shared_rows
                  /\ Len(trans_rows') = Len(trans_rows) + 1
                  /\ SubSeq(trans_rows', 1, Len(trans_rows)) = trans_rows
                  /\ trans_rows'[Len(trans_rows')]["master"] = last'.kwargs["master"]
    ]_vars

\* create(master=existing, translated field) returned.
C2_Witness ==
  /\ last.op = "create"
  /\ last.error = ""
  /\ DOMAIN last.kwargs = {"master", TranslatedField}
  /\ trans_rows[last.result]["master"] = last.kwargs["master"]

\* C3: create without master adds one shared row holding exactly the
\* shared-owned attributes and one translation row holding every
\* translation-owned attribute; the shared manager is called first, the
\* translation row's master is the new shared row, and the result is built
\* from the new translation row.
C3_CreateBoth ==
  [][ (last'.op = "create" /\ "master" \notin DOMAIN last'.kwargs)
        => LET kwargs == last'.kwargs
               sid == Len(shared_rows) + 1
               tid == Len(trans_rows) + 1
           IN  /\ last'.error = ""
               /\ Len(shared_rows') = sid
               /\ Len(trans_rows') = tid
               /\ SubSeq(shared_rows', 1, sid - 1) = shared_rows
               /\ SubSeq(trans_rows', 1, tid - 1) = trans_rows
               /\ DOMAIN shared_rows'[sid] = (DOMAIN kwargs \cap schema.shared) \cup {"id"}
               /\ \A k \in DOMAIN kwargs :
                    IF k \in schema.shared
                      THEN /\ shared_rows'[sid][k] = kwargs[k]
                           /\ k \notin DOMAIN trans_rows'[tid]
                      ELSE /\ k \in DOMAIN trans_rows'[tid]
                           /\ trans_rows'[tid][k] = kwargs[k]
               /\ trans_rows'[tid]["master"] = sid
               /\ Len(last'.calls) = 2
               /\ last'.calls[1].manager = RealManager
               /\ last'.calls[2].manager = "objects"
               /\ last'.calls[2].kwargs["master"] = sid
               /\ last'.result = tid
    ]_vars

\* create(shared field, translated field) returned.
C3_Witness ==
  /\ last.op = "create"
  /\ last.error = ""
  /\ DOMAIN last.kwargs = {SharedField, TranslatedField}
  /\ shared_rows[Len(shared_rows)][SharedField] = "X"
  /\ trans_rows[last.result][TranslatedField] = "Y"

=============================================================================
